---- MODULE Spec2Model ----
(***************************************************************************)
(* The routes of ai-intro-server: quizRouter (routes/quiz.ts) over the     *)
(* quiz_attempt, quiz_answer and profile tables, chatRouter                *)
(* (routes/chat.ts) over chat_session and chat_message, and the session    *)
(* routes GET /user and GET /logout.                                       *)
(* What a handler does with a request is given by an outcome operator: the *)
(* status and data of its response and the tables as it leaves them; a     *)
(* route operator puts the route's middleware in front of it, and the      *)
(* action installs that outcome.  The response of the request served last  *)
(* is kept in resp.                                                        *)
(*   Spec      quiz and session routes, requests served one after another  *)
(*   SpecChat  chat routes, requests served one after another              *)
(*   SpecConc  submitAnswer and completeAttempt on one attempt,            *)
(*             interleaved at the await between their checks and their     *)
(*             transaction and inside the transaction of completeAttempt;  *)
(*             a transaction may throw and is then rolled back             *)
(*   SpecProfile  the completions of two attempts, their transactions      *)
(*             running side by side                                        *)
(*   SpecRepeat  one attempt and the answers to one of its questions       *)
(* The clock ticks whenever a committed write stamps a row with new Date().*)
(***************************************************************************)
EXTENDS Integers, Sequences, FiniteSets, Bags, TLC

\* ---------------------------------------------------------------- bounds
\* Rows the quiz_attempt and quiz_answer tables may hold.
MaxAttempts == 2
MaxAnswers == 1
\* Requests that may be between their first query and their transaction.
MaxInflight == 2
\* Attempts that are started while requests interleave.
MaxInterleavedAttempts == 1
\* Rows the quiz_answer table may hold while requests interleave.
MaxInterleavedAnswers == 2
\* Answers that are given to one question of one attempt: one more than
\* totalQuestions.
MaxRepeats == 11

\* ---------------------------------------------------------------- data
\* completedAt: null
Null == 0

Users == {"u1", "u2"}

\* Attempt ids a request may carry: an id above the number of rows is the id
\* of no attempt.
AttemptIds == 1..MaxAttempts

\* Question set ids a request may carry; "s0" is the id of no set.
SetIds == {"s1", "s2", "s3", "s0"}

\* Question ids a request may carry; "q0" is the id of no question.
QuestionIds == {"q1", "q2", "q3", "q0"}

UserAnswers == {"true", "5"}

\* question_set rows; "s3" has no question.
questionSetTable ==
  << [id |-> "s1", name |-> "Math Basics", level |-> 0, description |-> "arith", createdAt |-> 0],
     [id |-> "s2", name |-> "Logic", level |-> 1, description |-> "logic", createdAt |-> 0],
     [id |-> "s3", name |-> "Empty Set", level |-> 0, description |-> "none", createdAt |-> 0] >>

\* question rows.
questionTable ==
  << [id |-> "q1", questionSetId |-> "s1", type |-> "true_false",
      content |-> "2 + 2 = 4?", options |-> << >>, correctAnswer |-> "true", createdAt |-> 0],
     [id |-> "q2", questionSetId |-> "s1", type |-> "single_selection",
      content |-> "What is 10 / 2?", options |-> <<"2", "5", "8", "10">>,
      correctAnswer |-> "5", createdAt |-> 0],
     [id |-> "q3", questionSetId |-> "s2", type |-> "true_false",
      content |-> "1 = 1?", options |-> << >>, correctAnswer |-> "true", createdAt |-> 0] >>

\* ---------------------------------------------------------------- state
VARIABLES
  quizAttemptTable,   \* rows of quiz_attempt, in insertion order
  quizAnswerTable,    \* rows of quiz_answer, in insertion order
  userProfileTable,   \* rows of profile, in insertion order
  now,                \* the clock read by new Date()
  resp,               \* the response of the request served last
  chatSessionTable,   \* rows of chat_session, in insertion order
  chatMessageTable,   \* rows of chat_message, in insertion order
  inflight            \* the requests whose handler is at an await, as a bag

vars == <<quizAttemptTable, quizAnswerTable, userProfileTable, now, resp,
          chatSessionTable, chatMessageTable, inflight>>

\* ---------------------------------------------------------------- helpers
\* db.select().from(t).where(p) is SelectSeq(t, p): the rows of t that satisfy
\* p, in table order.

\* c.json(...), or the HTTPException as app.onError answers it
Response(op, status, data) == [op |-> op, status |-> status, data |-> data]

ErrorData(message) == [success |-> FALSE, error |-> message]

\* throw new HTTPException(status, { message }): no table is written.
Fail(status, message) ==
  [status |-> status, data |-> ErrorData(message),
   quizAttemptTable |-> quizAttemptTable, quizAnswerTable |-> quizAnswerTable,
   userProfileTable |-> userProfileTable, now |-> now,
   chatSessionTable |-> chatSessionTable, chatMessageTable |-> chatMessageTable]

\* A handler that answers 200 and leaves these tables; a row was stamped
\* when the clock has moved.
Done(data, attempts, answers, profiles, clock) ==
  [status |-> 200, data |-> data,
   quizAttemptTable |-> attempts, quizAnswerTable |-> answers,
   userProfileTable |-> profiles, now |-> clock,
   chatSessionTable |-> chatSessionTable, chatMessageTable |-> chatMessageTable]

\* The step of a handler that ends a request: its outcome becomes the state.
Respond(op, outcome) ==
  /\ quizAttemptTable' = outcome.quizAttemptTable
  /\ quizAnswerTable' = outcome.quizAnswerTable
  /\ userProfileTable' = outcome.userProfileTable
  /\ now' = outcome.now
  /\ resp' = Response(op, outcome.status, outcome.data)
  /\ chatSessionTable' = outcome.chatSessionTable
  /\ chatMessageTable' = outcome.chatMessageTable

\* A request served from its first query to its response with no other
\* request in between.
Serve(op, outcome) ==
  /\ Len(outcome.quizAttemptTable) <= MaxAttempts
  /\ Len(outcome.quizAnswerTable) <= MaxAnswers
  /\ Respond(op, outcome)
  /\ UNCHANGED inflight

\* ---------------------------------------------------------------- chat data
\* c.set('user', null): the request carries no valid session
NoUser == "null"

Callers == Users \cup {NoUser}

\* Forms a request may carry; the last one lacks the content field.
Forms ==
  { [role |-> "user", content |-> "hello"],
    [role |-> "system", content |-> "be brief"],
    [role |-> "user"] }

\* chatMessageSchema: z.object({ role: z.string(), content: z.string() })
ValidForm(form) == DOMAIN form = {"role", "content"}

\* Session ids the provider may return.
ProviderIds == {"cmpl-1", "cmpl-2"}

\* Creation times the provider may report, in seconds.
CreatedSeconds == {1, 2}

\* requestOpenAiChatCompletionsApi throws: fetch failed or !response.ok
ApiError == [ok |-> FALSE]

\* What requestOpenAiChatCompletionsApi may come back with.
Completions ==
  {ApiError} \cup
  { [ok |-> TRUE, id |-> id, created |-> created,
     choices |-> << [index |-> 0,
                     message |-> [role |-> "assistant", content |-> "reply"]] >>] :
      id \in ProviderIds, created \in CreatedSeconds }

\* Times, in milliseconds, the server clock may show when a request arrives.
ReceiveTimes == {1, 1500, 2500}

\* ---------------------------------------------------------------- loggedIn
\* The loggedIn middleware: a request without a user is answered 401 and the
\* handler is not run.
LoggedIn(user, outcome) == IF user = NoUser THEN Fail(401, "Unauthorized") ELSE outcome

\* ---------------------------------------------------------------- startAttempt
\* const totalQuestions = 10
totalQuestions == 10

\* select id from question where questionSetId = ...
QuestionsOfSet(questionSetId) ==
  SelectSeq(questionTable, LAMBDA q : q.questionSetId = questionSetId)

\* A start that never takes a set for empty.
NoQuestionsNever(questions) == FALSE

\* questions.length === 0
NoQuestions(questions) == Len(questions) = 0

NewAttempt(attemptId, user, questionSetId) ==
  [id |-> attemptId, userId |-> user, questionSetId |-> questionSetId, score |-> 0,
   totalQuestions |-> totalQuestions, startedAt |-> now, completedAt |-> Null]

StartAttemptOutcome(user, questionSetId) ==
  LET questionSet == SelectSeq(questionSetTable, LAMBDA s : s.id = questionSetId)
      questions == QuestionsOfSet(questionSetId)
      attemptId == Len(quizAttemptTable) + 1
  IN IF questionSet = << >>
     THEN Fail(404, "Question set not found")
     ELSE IF NoQuestions(questions)
     THEN Fail(404, "No questions found for this question set")
     ELSE Done([attemptId |-> attemptId, totalQuestions |-> totalQuestions],
               Append(quizAttemptTable, NewAttempt(attemptId, user, questionSetId)),
               quizAnswerTable, userProfileTable, now + 1)

\* loggedIn, handler
StartAttemptRoute(user, questionSetId) ==
  LoggedIn(user, StartAttemptOutcome(user, questionSetId))

\* POST /:questionSetId/start
StartAttempt(user, questionSetId) ==
  Serve("startAttempt", StartAttemptRoute(user, questionSetId))

\* ---------------------------------------------------------------- submitAnswer
\* A select that looks the attempt up by its id alone.
SelectAttemptOfAnyUser(attemptId, user) ==
  SelectSeq(quizAttemptTable, LAMBDA r : r.id = attemptId)

\* select from quiz_attempt where id = attemptId and userId = user, limit 1
SelectAttempt(attemptId, user) ==
  SelectSeq(quizAttemptTable, LAMBDA r : r.id = attemptId /\ r.userId = user)

\* select from question where id = questionId, limit 1
SelectQuestion(questionId) ==
  SelectSeq(questionTable, LAMBDA q : q.id = questionId)

\* A check that takes every attempt for in progress.
AttemptCompletedNever(quizAttempt) == FALSE

\* if (quizAttempt.completedAt)
AttemptCompleted(quizAttempt) == quizAttempt.completedAt # Null

\* A check that refuses a question the attempt has an answer to.
OtherSetOrAnswered(question, quizAttempt) ==
  \/ question.questionSetId # quizAttempt.questionSetId
  \/ \E i \in 1..Len(quizAnswerTable) :
       /\ quizAnswerTable[i].quizAttemptId = quizAttempt.id
       /\ quizAnswerTable[i].questionId = question.id

\* A check that lets every question through.
OtherSetNever(question, quizAttempt) == FALSE

\* question.questionSetId !== quizAttempt.questionSetId
OtherSet(question, quizAttempt) == question.questionSetId # quizAttempt.questionSetId

\* A scoring that ignores the answer given.
IsCorrectAlways(question, userAnswer) ==
  question.type = "single_selection" \/ question.type = "true_false"

\* let isCorrect = false; if (type is single_selection or true_false)
\*   isCorrect = userAnswer === question.correctAnswer
IsCorrect(question, userAnswer) ==
  IF question.type = "single_selection" \/ question.type = "true_false"
  THEN userAnswer = question.correctAnswer
  ELSE FALSE

\* A point counted twice.
NewScoreTwice(quizAttempt) == quizAttempt.score + 2

\* (quizAttempt.score || 0) + 1, of the attempt row as the handler read it
NewScore(quizAttempt) == quizAttempt.score + 1

NewAnswer(answerId, attemptId, questionId, userAnswer, isCorrect) ==
  [id |-> answerId, quizAttemptId |-> attemptId, questionId |-> questionId,
   userAnswer |-> userAnswer, isCorrect |-> isCorrect, answeredAt |-> now]

\* update quiz_attempt set score = ... where id = attemptId
SetScore(table, attemptId, score) ==
  [i \in 1..Len(table) |->
     IF table[i].id = attemptId THEN [table[i] EXCEPT !.score = score] ELSE table[i]]

\* A handler that looks the question up before the attempt.
SubmitAnswerOutcomeQuestionFirst(user, attemptId, questionId, userAnswer) ==
  LET found == SelectAttempt(attemptId, user)
      questions == SelectQuestion(questionId)
  IN IF questions = << >>
     THEN Fail(404, "Question not found")
     ELSE IF found = << >>
     THEN Fail(404, "Quiz attempt not found or does not belong to user")
     ELSE IF OtherSet(questions[1], found[1])
     THEN Fail(403, "Question does not belong to this quiz set")
     ELSE IF AttemptCompleted(found[1])
     THEN Fail(403, "Quiz attempt has already been completed")
     ELSE LET isCorrect == IsCorrect(questions[1], userAnswer)
          IN Done([wasCorrect |-> isCorrect, correctAnswer |-> questions[1].correctAnswer],
                  IF isCorrect
                  THEN SetScore(quizAttemptTable, attemptId, NewScore(found[1]))
                  ELSE quizAttemptTable,
                  Append(quizAnswerTable,
                         NewAnswer(Len(quizAnswerTable) + 1, attemptId, questionId,
                                   userAnswer, isCorrect)),
                  userProfileTable, now + 1)

SubmitAnswerOutcome(user, attemptId, questionId, userAnswer) ==
  LET found == SelectAttempt(attemptId, user)
      questions == SelectQuestion(questionId)
  IN IF found = << >>
     THEN Fail(404, "Quiz attempt not found or does not belong to user")
     ELSE IF AttemptCompleted(found[1])
     THEN Fail(403, "Quiz attempt has already been completed")
     ELSE IF questions = << >>
     THEN Fail(404, "Question not found")
     ELSE IF OtherSet(questions[1], found[1])
     THEN Fail(403, "Question does not belong to this quiz set")
     ELSE LET quizAttempt == found[1]
              question == questions[1]
              isCorrect == IsCorrect(question, userAnswer)
              answerId == Len(quizAnswerTable) + 1
          IN \* db.transaction: insert the answer, then update the score
             Done([wasCorrect |-> isCorrect, correctAnswer |-> question.correctAnswer],
                  IF isCorrect
                  THEN SetScore(quizAttemptTable, attemptId, NewScore(quizAttempt))
                  ELSE quizAttemptTable,
                  Append(quizAnswerTable,
                         NewAnswer(answerId, attemptId, questionId, userAnswer, isCorrect)),
                  userProfileTable, now + 1)

\* loggedIn, zValidator, handler
SubmitAnswerRoute(user, attemptId, questionId, userAnswer) ==
  LoggedIn(user, SubmitAnswerOutcome(user, attemptId, questionId, userAnswer))

\* POST /attempt/:attemptId/answer
SubmitAnswer(user, attemptId, questionId, userAnswer) ==
  Serve("submitAnswer", SubmitAnswerRoute(user, attemptId, questionId, userAnswer))

\* ---------------------------------------------------------------- completeAttempt
Max(a, b) == IF a >= b THEN a ELSE b

\* A count that stays where it was.
NewTotalQuizzesTakenSame(userProfile) == userProfile.totalQuizzesTaken

\* (userProfile.totalQuizzesTaken || 0) + 1
NewTotalQuizzesTaken(userProfile) == userProfile.totalQuizzesTaken + 1

\* A highest score that is the score of the attempt completed last.
NewHighestScoreLast(userProfile, quizAttempt) == quizAttempt.score

\* Math.max(userProfile.highestScore || 0, quizAttempt.score || 0)
NewHighestScore(userProfile, quizAttempt) ==
  Max(userProfile.highestScore, quizAttempt.score)

\* update quiz_attempt set completedAt = ... where id = attemptId
SetCompletedAt(table, attemptId, completedAt) ==
  [i \in 1..Len(table) |->
     IF table[i].id = attemptId THEN [table[i] EXCEPT !.completedAt = completedAt]
     ELSE table[i]]

\* select from profile where userId = user, limit 1
SelectProfile(table, user) == SelectSeq(table, LAMBDA p : p.userId = user)

\* The write of the profile, of a transaction that selected the rows found:
\* update the user's profile rows from the first row found, or insert the
\* first one.
WriteProfile(table, user, found, quizAttempt) ==
  IF found # << >>
  THEN [i \in 1..Len(table) |->
          IF table[i].userId = user
          THEN [table[i] EXCEPT
                  !.totalQuizzesTaken = NewTotalQuizzesTaken(found[1]),
                  !.highestScore = NewHighestScore(found[1], quizAttempt)]
          ELSE table[i]]
  ELSE Append(table, [id |-> Len(table) + 1, userId |-> user,
                      totalQuizzesTaken |-> 1, highestScore |-> quizAttempt.score])

\* The profile part of the transaction, its select and its write with
\* nothing in between.
RecordCompletion(table, user, quizAttempt) ==
  WriteProfile(table, user, SelectProfile(table, user), quizAttempt)

CompleteAttemptOutcome(user, attemptId) ==
  LET found == SelectAttempt(attemptId, user)
  IN IF found = << >>
     THEN Fail(404, "Quiz attempt not found or does not belong to user")
     ELSE IF AttemptCompleted(found[1])
     THEN Fail(403, "Quiz attempt has already been completed")
     ELSE LET quizAttempt == found[1]
              completedAt == now
          IN \* db.transaction: set completedAt, then the profile
             Done([attemptId |-> quizAttempt.id, score |-> quizAttempt.score,
                   totalQuestions |-> quizAttempt.totalQuestions,
                   startedAt |-> quizAttempt.startedAt, completedAt |-> completedAt],
                  SetCompletedAt(quizAttemptTable, attemptId, completedAt),
                  quizAnswerTable,
                  RecordCompletion(userProfileTable, user, quizAttempt), now + 1)

\* loggedIn, handler
CompleteAttemptRoute(user, attemptId) ==
  LoggedIn(user, CompleteAttemptOutcome(user, attemptId))

\* POST /attempt/:attemptId/complete
CompleteAttempt(user, attemptId) ==
  Serve("completeAttempt", CompleteAttemptRoute(user, attemptId))

\* ---------------------------------------------------------------- getQuestionSetDetail
\* A projection that keeps the whole question row.
QuestionWhole(question) == question

\* The columns the handler selects of a question: correctAnswer is not one.
QuestionPublic(question) ==
  [id |-> question.id, questionSetId |-> question.questionSetId, type |-> question.type,
   content |-> question.content, options |-> question.options,
   createdAt |-> question.createdAt]

GetQuestionSetDetailOutcome(questionSetId) ==
  LET questionSet == SelectSeq(questionSetTable, LAMBDA s : s.id = questionSetId)
      rows == QuestionsOfSet(questionSetId)
      questions == [i \in 1..Len(rows) |-> QuestionPublic(rows[i])]
  IN IF questionSet = << >>
     THEN Fail(404, "Question set not found")
     ELSE Done([questionSet |-> questionSet[1], questions |-> questions],
               quizAttemptTable, quizAnswerTable, userProfileTable, now)

\* loggedIn, handler
GetQuestionSetDetailRoute(user, questionSetId) ==
  LoggedIn(user, GetQuestionSetDetailOutcome(questionSetId))

\* GET /sets/:questionSetId
GetQuestionSetDetail(user, questionSetId) ==
  Serve("getQuestionSetDetail", GetQuestionSetDetailRoute(user, questionSetId))

\* ---------------------------------------------------------------- listQuestionSets
\* The columns the handler selects of a question set.
QuestionSetListed(questionSet) ==
  [id |-> questionSet.id, name |-> questionSet.name, level |-> questionSet.level,
   description |-> questionSet.description, createdAt |-> questionSet.createdAt]

ListQuestionSetsOutcome ==
  Done([i \in 1..Len(questionSetTable) |-> QuestionSetListed(questionSetTable[i])],
       quizAttemptTable, quizAnswerTable, userProfileTable, now)

\* loggedIn, handler
ListQuestionSetsRoute(user) == LoggedIn(user, ListQuestionSetsOutcome)

\* GET /sets
ListQuestionSets(user) == Serve("listQuestionSets", ListQuestionSetsRoute(user))

\* ---------------------------------------------------------------- postCompletion
\* A chat handler that answers 200 and leaves these chat tables.
ChatDone(data, sessions, messages, clock) ==
  [status |-> 200, data |-> data,
   quizAttemptTable |-> quizAttemptTable, quizAnswerTable |-> quizAnswerTable,
   userProfileTable |-> userProfileTable, now |-> clock,
   chatSessionTable |-> sessions, chatMessageTable |-> messages]

\* new Date(res.created * 1000)
ProviderDate(res) == res.created * 1000

ChatSession(user, res) == [id |-> res.id, userId |-> user, createdAt |-> ProviderDate(res)]

\* A user message stamped with the provider's time.
ChatMessageFromUserAtProviderTime(messageId, form, received, res) ==
  [id |-> messageId, chatSessionId |-> res.id, role |-> form.role,
   content |-> form.content, createdAt |-> ProviderDate(res)]

\* createdAt: serverReceivedTimestamp
ChatMessageFromUser(messageId, form, received, res) ==
  [id |-> messageId, chatSessionId |-> res.id, role |-> form.role,
   content |-> form.content, createdAt |-> received]

\* Array.prototype.join of a list of strings
RECURSIVE Join(_)
Join(items) ==
  IF items = << >> THEN ""
  ELSE IF Len(items) = 1 THEN items[1]
  ELSE items[1] \o "," \o Join(Tail(items))

\* res.choices.map((item) => item.message).join(): each message is an object,
\* and join takes an object as the string "[object Object]".
CompletionsOf(res) ==
  Join([i \in 1..Len(res.choices) |-> "[object Object]"])

ChatMessageFromLlm(messageId, res) ==
  [id |-> messageId, chatSessionId |-> res.id, role |-> "assistant",
   content |-> CompletionsOf(res), createdAt |-> ProviderDate(res)]

\* A catch block that answers 500 after the session and the user's message
\* were stored.
CaughtAfterUserMessage(user, form, received) ==
  [Fail(500, "An unexpected error occurred while processing your request.") EXCEPT
     !.now = received,
     !.chatSessionTable =
        Append(chatSessionTable, [id |-> "pending", userId |-> user, createdAt |-> received]),
     !.chatMessageTable =
        Append(chatMessageTable,
               [id |-> Len(chatMessageTable) + 1, chatSessionId |-> "pending",
                role |-> form.role, content |-> form.content, createdAt |-> received])]

\* catch (err): whatever was thrown in the try block, the provider call or the
\* transaction, the request ends with 500 and the fixed message; a
\* transaction that threw was rolled back.
Caught(user, form, received) ==
  [Fail(500, "An unexpected error occurred while processing your request.") EXCEPT
     !.now = received]

\* tx.insert(chatSessionTable): the id is the primary key
DuplicateSession(res) == \E i \in 1..Len(chatSessionTable) : chatSessionTable[i].id = res.id

\* The handler behind the validator and loggedIn.
PostCompletionOutcome(user, form, received, res) ==
  IF ~res.ok THEN Caught(user, form, received)
  ELSE IF DuplicateSession(res) THEN Caught(user, form, received)
  ELSE LET messageId == Len(chatMessageTable) + 1
       IN ChatDone([role |-> "assistant", content |-> CompletionsOf(res)],
                   Append(chatSessionTable, ChatSession(user, res)),
                   chatMessageTable \o
                     << ChatMessageFromUser(messageId, form, received, res),
                        ChatMessageFromLlm(messageId + 1, res) >>,
                   received)

\* The statements of the transaction of postCompletion.
ChatStatements == 1..3

\* Inserts that stay when a later one throws.
RolledBackKeepsWrites(partial, caught) ==
  [caught EXCEPT !.chatSessionTable = partial.chatSessionTable,
                 !.chatMessageTable = partial.chatMessageTable]

\* db.transaction whose callback threw: what its statements wrote is rolled
\* back, and the error goes on to the catch block.
RolledBack(partial, caught) == caught

\* The handler when statement failed of its transaction throws, whatever the
\* reason: the store refuses the row or cannot be reached.
PostCompletionThrownOutcome(user, form, received, res, failed) ==
  LET messageId == Len(chatMessageTable) + 1
      sessions == Append(chatSessionTable, ChatSession(user, res))
      messages == Append(chatMessageTable, ChatMessageFromUser(messageId, form, received, res))
      partial ==
        ChatDone(<< >>,
                 IF failed >= 2 THEN sessions ELSE chatSessionTable,
                 IF failed >= 3 THEN messages ELSE chatMessageTable,
                 received)
  IN IF ~res.ok THEN Caught(user, form, received)
     ELSE RolledBack(partial, Caught(user, form, received))

\* zValidator('form', chatMessageSchema), loggedIn, handler
PostCompletionThrownRoute(user, form, received, res, failed) ==
  IF ~ValidForm(form) THEN Fail(400, "ZodError")
  ELSE LoggedIn(user, PostCompletionThrownOutcome(user, form, received, res, failed))

\* POST /completions, a statement of the transaction throwing
PostCompletionThrown(user, form, received, res, failed) ==
  /\ received >= now
  /\ Serve("postCompletion", PostCompletionThrownRoute(user, form, received, res, failed))

\* A route whose loggedIn runs before the validator.
PostCompletionRouteLoggedInFirst(user, form, received, res) ==
  LoggedIn(user, IF ~ValidForm(form) THEN Fail(400, "ZodError")
                 ELSE PostCompletionOutcome(user, form, received, res))

\* zValidator('form', chatMessageSchema), loggedIn, handler
PostCompletionRoute(user, form, received, res) ==
  IF ~ValidForm(form) THEN Fail(400, "ZodError")
  ELSE LoggedIn(user, PostCompletionOutcome(user, form, received, res))

\* POST /completions
PostCompletion(user, form, received, res) ==
  /\ received >= now
  /\ Serve("postCompletion", PostCompletionRoute(user, form, received, res))

\* ---------------------------------------------------------------- getHistory
\* A sort that leaves the rows as the query met them.
OrderByNothing(rows, column) == rows

\* .orderBy(column): the rows by ascending column, rows that tie in the order
\* the query met them.
OrderBy(rows, column) ==
  LET Before(i) ==
        {j \in 1..Len(rows) :
           \/ rows[j][column] < rows[i][column]
           \/ rows[j][column] = rows[i][column] /\ j < i}
  IN [k \in 1..Len(rows) |->
        rows[CHOOSE i \in 1..Len(rows) : Cardinality(Before(i)) + 1 = k]]

\* A select without the where clause.
SessionIdsOfAnyUser(user) ==
  {chatSessionTable[i].id : i \in 1..Len(chatSessionTable)}

\* select id from chat_session where userId = user
SessionIds(user) ==
  LET rows == SelectSeq(chatSessionTable, LAMBDA r : r.userId = user)
  IN {rows[i].id : i \in 1..Len(rows)}

ChatHistory(item) ==
  [id |-> item.chatSessionId, role |-> item.role, content |-> item.content,
   createdAt |-> item.createdAt]

GetHistoryOutcome(user) ==
  LET uniqueSessionIds == SessionIds(user)
      messages ==
        OrderBy(SelectSeq(chatMessageTable, LAMBDA m : m.chatSessionId \in uniqueSessionIds),
                "createdAt")
  IN IF uniqueSessionIds = {}
     THEN ChatDone(<< >>, chatSessionTable, chatMessageTable, now)
     ELSE ChatDone([i \in 1..Len(messages) |-> ChatHistory(messages[i])],
                   chatSessionTable, chatMessageTable, now)

GetHistoryRoute(user) == LoggedIn(user, GetHistoryOutcome(user))

\* GET /history
GetHistory(user) == Serve("getHistory", GetHistoryRoute(user))

\* ---------------------------------------------------------------- listMyAttempts
\* A select without the where clause.
AttemptsOfAnyUser(user) == quizAttemptTable

\* from quiz_attempt where userId = user
AttemptsOfUser(user) == SelectSeq(quizAttemptTable, LAMBDA r : r.userId = user)

\* The columns the handler selects of quiz_attempt left join question_set.
MyAttempt(row) ==
  [attemptId |-> row.id, questionSetId |-> row.questionSetId,
   questionSetName |->
     LET questionSet == SelectSeq(questionSetTable, LAMBDA s : s.id = row.questionSetId)
     IN IF questionSet = << >> THEN "null" ELSE questionSet[1].name,
   score |-> row.score, totalQuestions |-> row.totalQuestions,
   startedAt |-> row.startedAt, completedAt |-> row.completedAt]

ListMyAttemptsOutcome(user) ==
  LET rows == OrderBy(AttemptsOfUser(user), "startedAt")
      myAttempts == [i \in 1..Len(rows) |-> MyAttempt(rows[i])]
  IN Done(myAttempts, quizAttemptTable, quizAnswerTable, userProfileTable, now)

\* loggedIn, handler
ListMyAttemptsRoute(user) == LoggedIn(user, ListMyAttemptsOutcome(user))

\* GET /attempts/my
ListMyAttempts(user) == Serve("listMyAttempts", ListMyAttemptsRoute(user))

\* ---------------------------------------------------------------- getAttemptDetail
\* quiz_attempt left join question_set: the name of the attempt's set
QuestionSetName(questionSetId) ==
  LET questionSet == SelectSeq(questionSetTable, LAMBDA s : s.id = questionSetId)
  IN IF questionSet = << >> THEN "null" ELSE questionSet[1].name

\* select ... from quiz_attempt left join question_set
\*   where id = attemptId and userId = user, limit 1: a list of rows
SelectAttemptWithSet(attemptId, user) ==
  LET rows == SelectAttempt(attemptId, user)
  IN [i \in 1..Len(rows) |->
        [id |-> rows[i].id, userId |-> rows[i].userId,
         questionSetId |-> rows[i].questionSetId,
         questionSetName |-> QuestionSetName(rows[i].questionSetId),
         score |-> rows[i].score, totalQuestions |-> rows[i].totalQuestions,
         startedAt |-> rows[i].startedAt, completedAt |-> rows[i].completedAt]]

\* quiz_answer left join question: one row of the answers list
AnswerWithQuestion(answer) ==
  LET question == SelectQuestion(answer.questionId)
  IN [questionId |-> answer.questionId,
      questionContent |-> IF question = << >> THEN "null" ELSE question[1].content,
      questionType |-> IF question = << >> THEN "null" ELSE question[1].type,
      questionOptions |-> IF question = << >> THEN << >> ELSE question[1].options,
      userAnswer |-> answer.userAnswer, isCorrect |-> answer.isCorrect,
      correctAnswer |-> IF question = << >> THEN "null" ELSE question[1].correctAnswer,
      answeredAt |-> answer.answeredAt]

\* select ... from quiz_answer left join question where quizAttemptId = attemptId
SelectAnswers(attemptId) ==
  LET rows == SelectSeq(quizAnswerTable, LAMBDA a : a.quizAttemptId = attemptId)
  IN [i \in 1..Len(rows) |-> AnswerWithQuestion(rows[i])]

\* if (!quizAttempt), of the list of rows the query returns: a list, even an
\* empty one, is never falsy.
NotFound(quizAttempt) == FALSE

\* { ...quizAttempt }, of a list of rows: its indices "0", "1", ... as keys
Spread(rows) ==
  [k \in {ToString(i - 1) : i \in 1..Len(rows)} |->
     rows[CHOOSE i \in 1..Len(rows) : ToString(i - 1) = k]]

GetAttemptDetailOutcome(user, attemptId) ==
  LET quizAttempt == SelectAttemptWithSet(attemptId, user)
      answers == SelectAnswers(attemptId)
  IN IF NotFound(quizAttempt)
     THEN Fail(404, "Quiz attempt not found or access denied")
     ELSE Done([answers |-> answers] @@ Spread(quizAttempt),
               quizAttemptTable, quizAnswerTable, userProfileTable, now)

\* loggedIn, handler
GetAttemptDetailRoute(user, attemptId) ==
  LoggedIn(user, GetAttemptDetailOutcome(user, attemptId))

\* GET /attempts/:attemptId
GetAttemptDetail(user, attemptId) ==
  Serve("getAttemptDetail", GetAttemptDetailRoute(user, attemptId))

\* ---------------------------------------------------------------- logout
\* c.redirect('/')
Redirect(location) ==
  [Fail(302, "") EXCEPT !.data = [location |-> location]]

\* No loggedIn: without a session the handler redirects at once; with one it
\* invalidates the session, which is a row of the identity provider's, and
\* redirects.
LogoutRoute(user) == Redirect("/")

\* GET /auth/logout
Logout(user) == Serve("logout", LogoutRoute(user))

\* ---------------------------------------------------------------- getUser
\* The columns the handler selects of the profile.
ProfileShown(profile) ==
  [totalQuizzesTaken |-> profile.totalQuizzesTaken, highestScore |-> profile.highestScore]

GetUserOutcome(user) ==
  LET profile == SelectSeq(userProfileTable, LAMBDA p : p.userId = user)
  IN IF profile = << >>
     THEN Fail(404, "User not found")
     ELSE Done([username |-> user, profile |-> ProfileShown(profile[1])],
               quizAttemptTable, quizAnswerTable, userProfileTable, now)

\* loggedIn, handler
GetUserRoute(user) == LoggedIn(user, GetUserOutcome(user))

\* GET /auth/user
GetUser(user) == Serve("getUser", GetUserRoute(user))

\* ---------------------------------------------------------------- specification
\* A user who signed up has a profile row with the column defaults; a user
\* inserted without one has none.  "u1" signed up, "u2" was inserted.
SignupProfile(profileId, user) ==
  [id |-> profileId, userId |-> user, totalQuizzesTaken |-> 0, highestScore |-> 0]

Init ==
  /\ quizAttemptTable = << >>
  /\ quizAnswerTable = << >>
  /\ userProfileTable = <<SignupProfile(1, "u1")>>
  /\ now = 1
  /\ resp = Response("none", 0, << >>)
  /\ chatSessionTable = << >>
  /\ chatMessageTable = << >>
  /\ inflight = EmptyBag

Next ==
  \/ \E user \in Callers, questionSetId \in SetIds : StartAttempt(user, questionSetId)
  \/ \E user \in Callers, attemptId \in AttemptIds, questionId \in QuestionIds,
        userAnswer \in UserAnswers :
       SubmitAnswer(user, attemptId, questionId, userAnswer)
  \/ \E user \in Callers, attemptId \in AttemptIds : CompleteAttempt(user, attemptId)
  \/ \E user \in Callers : ListQuestionSets(user)
  \/ \E user \in Callers, questionSetId \in SetIds : GetQuestionSetDetail(user, questionSetId)
  \/ \E user \in Callers, attemptId \in AttemptIds : GetAttemptDetail(user, attemptId)
  \/ \E user \in Callers : ListMyAttempts(user)
  \/ \E user \in Callers : GetUser(user)
  \/ \E user \in Callers : Logout(user)

Spec == Init /\ [][Next]_vars

\* The chat routes, requests served one after another.
NextChat ==
  \/ \E user \in Callers, form \in Forms, received \in ReceiveTimes, res \in Completions :
       PostCompletion(user, form, received, res)
  \/ \E user \in Callers, form \in Forms, received \in ReceiveTimes, res \in Completions,
        failed \in ChatStatements :
       PostCompletionThrown(user, form, received, res, failed)
  \/ \E user \in Callers : GetHistory(user)

SpecChat == Init /\ [][NextChat]_vars

\* ---------------------------------------------------------------- repeated answers
\* The questions a caller answers again and again.
RepeatedQuestionIds == {"q1"}

\* POST /:questionSetId/start, of the first attempt
StartAttemptFirst(user, questionSetId) ==
  /\ quizAttemptTable = << >>
  /\ StartAttempt(user, questionSetId)

\* POST /attempt/:attemptId/answer, once more
SubmitAnswerAgain(user, attemptId, questionId, userAnswer) ==
  /\ Len(quizAnswerTable) < MaxRepeats
  /\ Respond("submitAnswer", SubmitAnswerRoute(user, attemptId, questionId, userAnswer))
  /\ UNCHANGED inflight

NextRepeat ==
  \/ \E user \in Users, questionSetId \in SetIds : StartAttemptFirst(user, questionSetId)
  \/ \E user \in Users, attemptId \in AttemptIds, questionId \in RepeatedQuestionIds,
        userAnswer \in UserAnswers :
       SubmitAnswerAgain(user, attemptId, questionId, userAnswer)

SpecRepeat == Init /\ [][NextRepeat]_vars

\* ---------------------------------------------------------------- interleaved requests
\* A handler runs up to an await, and the handlers of other requests run
\* before it goes on.  submitAnswer and completeAttempt read the attempt,
\* check it, and later run their transaction with the row as they read it.
\* What a transaction writes is seen by others when it commits; what it
\* selects, it may have selected before another transaction committed.
\* The clock ticks when a transaction that stamped a row commits.

\* What a handler holds between its checks and its transaction.
Pending(op, user, attemptId, quizAttempt, question, userAnswer, stamp) ==
  [op |-> op, user |-> user, attemptId |-> attemptId, quizAttempt |-> quizAttempt,
   question |-> question, userAnswer |-> userAnswer, stamp |-> stamp,
   userProfile |-> << >>]

\* A transaction of completeAttempt has updated this attempt and has not
\* committed: it holds the lock of the row, and a statement of another
\* transaction that writes the row, or inserts a row that refers to it,
\* waits for the commit.
Locked(attemptId) ==
  \E pending \in BagToSet(inflight) :
    pending.op = "completeAttemptTx" /\ pending.attemptId = attemptId

\* A transaction that keeps what its statements wrote before one threw.
ThrownKeepsWrites(partial) ==
  [partial EXCEPT !.status = 500, !.data = ErrorData("Internal Server Error")]

\* db.transaction whose callback threw: the transaction is rolled back, and
\* app.onError answers the error, which is no HTTPException, with 500.
Thrown(partial) == Fail(500, "Internal Server Error")

\* The statements of the transaction of submitAnswer; 0 for none.
SubmitStatements == 0..2

\* The statements of the transaction of completeAttempt before its last,
\* the update of the attempt and the select of the profile; 0 for none.
CompleteStatements == 0..2

\* The last statement of the transaction of completeAttempt, the write of
\* the profile; 0 for none.
ProfileStatements == {0, 3}

\* The checks of submitAnswer pass: the handler goes on to its transaction.
SubmitAnswerBegin(user, attemptId, questionId, userAnswer) ==
  /\ user # NoUser
  /\ SubmitAnswerOutcome(user, attemptId, questionId, userAnswer).status = 200
  /\ BagCardinality(inflight) < MaxInflight
  /\ inflight' = inflight (+) SetToBag({Pending("submitAnswer", user, attemptId,
                                                SelectAttempt(attemptId, user)[1],
                                                SelectQuestion(questionId)[1],
                                                userAnswer, now)})
  /\ UNCHANGED <<quizAttemptTable, quizAnswerTable, userProfileTable, now, resp,
                 chatSessionTable, chatMessageTable>>

\* A check of submitAnswer, or loggedIn, refuses the request.
SubmitAnswerRefused(user, attemptId, questionId, userAnswer) ==
  /\ SubmitAnswerRoute(user, attemptId, questionId, userAnswer).status # 200
  /\ Serve("submitAnswer", SubmitAnswerRoute(user, attemptId, questionId, userAnswer))

\* The statements of submitAnswer run one by one outside a transaction: the
\* row inserted stays when the update of the score throws.
SubmitAnswerCommitOutcomeUnwrapped(pending, failed) ==
  LET isCorrect == IsCorrect(pending.question, pending.userAnswer)
      newAnswer ==
        [NewAnswer(Len(quizAnswerTable) + 1, pending.attemptId, pending.question.id,
                   pending.userAnswer, isCorrect) EXCEPT !.answeredAt = pending.stamp]
      inserted == Append(quizAnswerTable, newAnswer)
      scored == IF isCorrect
                THEN SetScore(quizAttemptTable, pending.attemptId,
                              NewScore(pending.quizAttempt))
                ELSE quizAttemptTable
  IN IF failed = 1
     THEN Fail(500, "Internal Server Error")
     ELSE IF failed = 2 /\ isCorrect
     THEN [Fail(500, "Internal Server Error") EXCEPT !.quizAnswerTable = inserted]
     ELSE Done([wasCorrect |-> isCorrect,
                correctAnswer |-> pending.question.correctAnswer],
               scored, inserted, userProfileTable, now + 1)

\* The transaction of submitAnswer, of a handler that read the attempt row
\* pending.quizAttempt; statement failed throws, 0 for none.
SubmitAnswerCommitOutcome(pending, failed) ==
  LET isCorrect == IsCorrect(pending.question, pending.userAnswer)
      newAnswer ==
        [NewAnswer(Len(quizAnswerTable) + 1, pending.attemptId, pending.question.id,
                   pending.userAnswer, isCorrect) EXCEPT !.answeredAt = pending.stamp]
      inserted == Append(quizAnswerTable, newAnswer)
      scored == IF isCorrect
                THEN SetScore(quizAttemptTable, pending.attemptId,
                              NewScore(pending.quizAttempt))
                ELSE quizAttemptTable
  IN IF failed = 1
     THEN Thrown(Done(<< >>, quizAttemptTable, quizAnswerTable, userProfileTable, now))
     ELSE IF failed = 2 /\ isCorrect
     THEN Thrown(Done(<< >>, quizAttemptTable, inserted, userProfileTable, now))
     ELSE Done([wasCorrect |-> isCorrect,
                correctAnswer |-> pending.question.correctAnswer],
               scored, inserted, userProfileTable, now + 1)

SubmitAnswerCommit(pending, failed) ==
  /\ pending.op = "submitAnswer"
  /\ ~Locked(pending.attemptId)
  /\ Len(quizAnswerTable) < MaxInterleavedAnswers
  /\ Respond("submitAnswer", SubmitAnswerCommitOutcome(pending, failed))
  /\ inflight' = inflight (-) SetToBag({pending})

\* The checks of completeAttempt pass: the handler goes on to its transaction.
CompleteAttemptBegin(user, attemptId) ==
  /\ user # NoUser
  /\ CompleteAttemptOutcome(user, attemptId).status = 200
  /\ BagCardinality(inflight) < MaxInflight
  /\ inflight' = inflight (+) SetToBag({Pending("completeAttempt", user, attemptId,
                                                SelectAttempt(attemptId, user)[1],
                                                << >>, "", now)})
  /\ UNCHANGED <<quizAttemptTable, quizAnswerTable, userProfileTable, now, resp,
                 chatSessionTable, chatMessageTable>>

\* A check of completeAttempt, or loggedIn, refuses the request.
CompleteAttemptRefused(user, attemptId) ==
  /\ CompleteAttemptRoute(user, attemptId).status # 200
  /\ Serve("completeAttempt", CompleteAttemptRoute(user, attemptId))

\* The first statements of the transaction of completeAttempt, of a handler
\* that read the attempt row pending.quizAttempt: completedAt = new Date(),
\* the update of the attempt, the select of the profile.  Statement failed
\* throws, 0 for none.
CompleteAttemptReadOutcome(pending, failed) ==
  LET completed == SetCompletedAt(quizAttemptTable, pending.attemptId, now)
  IN IF failed = 1
     THEN Thrown(Done(<< >>, quizAttemptTable, quizAnswerTable, userProfileTable, now))
     ELSE Thrown(Done(<< >>, completed, quizAnswerTable, userProfileTable, now))

\* The transaction goes on to its last statement with the profile rows it
\* selected; what it wrote is its own until it commits.
CompleteAttemptRead(pending, failed) ==
  /\ pending.op = "completeAttempt"
  /\ ~Locked(pending.attemptId)
  /\ IF failed = 0
     THEN /\ inflight' =
               (inflight (-) SetToBag({pending})) (+)
                 SetToBag({[pending EXCEPT
                              !.op = "completeAttemptTx",
                              !.stamp = now,
                              !.userProfile = SelectProfile(userProfileTable, pending.user)]})
          /\ UNCHANGED <<quizAttemptTable, quizAnswerTable, userProfileTable, now, resp,
                         chatSessionTable, chatMessageTable>>
     ELSE /\ Respond("completeAttempt", CompleteAttemptReadOutcome(pending, failed))
          /\ inflight' = inflight (-) SetToBag({pending})

\* The last statement of the transaction of completeAttempt, the write of
\* the profile from the rows selected, the commit and the response;
\* statement failed throws, 0 for none.
CompleteAttemptCommitOutcome(pending, failed) ==
  LET quizAttempt == pending.quizAttempt
      completedAt == pending.stamp
      completed == SetCompletedAt(quizAttemptTable, pending.attemptId, completedAt)
  IN IF failed = 3
     THEN Thrown(Done(<< >>, completed, quizAnswerTable, userProfileTable, now))
     ELSE Done([attemptId |-> quizAttempt.id, score |-> quizAttempt.score,
                totalQuestions |-> quizAttempt.totalQuestions,
                startedAt |-> quizAttempt.startedAt, completedAt |-> completedAt],
               completed, quizAnswerTable,
               WriteProfile(userProfileTable, pending.user, pending.userProfile, quizAttempt),
               now + 1)

CompleteAttemptCommit(pending, failed) ==
  /\ pending.op = "completeAttemptTx"
  /\ Respond("completeAttempt", CompleteAttemptCommitOutcome(pending, failed))
  /\ inflight' = inflight (-) SetToBag({pending})

\* startAttempt has one statement that writes, its last.
StartAttemptAtOnce(user, questionSetId) ==
  /\ Len(quizAttemptTable) < MaxInterleavedAttempts
  /\ StartAttempt(user, questionSetId)

NextConc ==
  \/ \E user \in Users, questionSetId \in SetIds : StartAttemptAtOnce(user, questionSetId)
  \/ \E user \in Users, attemptId \in AttemptIds, questionId \in QuestionIds,
        userAnswer \in UserAnswers :
       \/ SubmitAnswerBegin(user, attemptId, questionId, userAnswer)
       \/ SubmitAnswerRefused(user, attemptId, questionId, userAnswer)
  \/ \E pending \in BagToSet(inflight), failed \in SubmitStatements :
       SubmitAnswerCommit(pending, failed)
  \/ \E user \in Users, attemptId \in AttemptIds :
       \/ CompleteAttemptBegin(user, attemptId)
       \/ CompleteAttemptRefused(user, attemptId)
  \/ \E pending \in BagToSet(inflight), failed \in CompleteStatements :
       CompleteAttemptRead(pending, failed)
  \/ \E pending \in BagToSet(inflight), failed \in ProfileStatements :
       CompleteAttemptCommit(pending, failed)

SpecConc == Init /\ [][NextConc]_vars

\* ---------------------------------------------------------------- interleaved completions
\* The completions of the attempts of a user, their transactions running
\* side by side; an answer is served between the steps of others when no
\* transaction holds its attempt.
SubmitAnswerBetween(user, attemptId, questionId, userAnswer) ==
  /\ ~Locked(attemptId)
  /\ SubmitAnswer(user, attemptId, questionId, userAnswer)

NextProfile ==
  \/ \E user \in Users, questionSetId \in SetIds : StartAttempt(user, questionSetId)
  \/ \E user \in Users, attemptId \in AttemptIds, questionId \in RepeatedQuestionIds,
        userAnswer \in UserAnswers :
       SubmitAnswerBetween(user, attemptId, questionId, userAnswer)
  \/ \E user \in Users, attemptId \in AttemptIds :
       \/ CompleteAttemptBegin(user, attemptId)
       \/ CompleteAttemptRefused(user, attemptId)
  \/ \E pending \in BagToSet(inflight) : CompleteAttemptRead(pending, 0)
  \/ \E pending \in BagToSet(inflight) : CompleteAttemptCommit(pending, 0)

SpecProfile == Init /\ [][NextProfile]_vars

\* ---------------------------------------------------------------- properties
\* The tables as an outcome leaves them are the tables as they are.
WritesNothing(outcome) ==
  /\ outcome.quizAttemptTable = quizAttemptTable
  /\ outcome.quizAnswerTable = quizAnswerTable
  /\ outcome.userProfileTable = userProfileTable
  /\ outcome.chatSessionTable = chatSessionTable
  /\ outcome.chatMessageTable = chatMessageTable

\* The quiz_attempt row with this id, as a list of zero or one row.
AttemptRow(attemptId) == SelectSeq(quizAttemptTable, LAMBDA r : r.id = attemptId)

SetExists(questionSetId) == \E i \in 1..Len(questionSetTable) : questionSetTable[i].id = questionSetId

\* C1: getAttemptDetail with an attemptId that does not exist or that another
\* user owns answers 404, and its data holds no field of the attempt and none
\* of its answers.
C1_AttemptDetailOfOthersNotFound ==
  \A user \in Users, attemptId \in AttemptIds :
    SelectAttempt(attemptId, user) = << >> =>
      LET outcome == GetAttemptDetailOutcome(user, attemptId)
      IN /\ outcome.status = 404
         /\ DOMAIN outcome.data = {"success", "error"}

\* C2: a successful startAttempt on a set with at least one question inserts
\* exactly one quiz_attempt row, owned by the caller, with score 0, completedAt
\* null and totalQuestions the number of questions of the set, returns that
\* totalQuestions, and changes no other row.
C2_StartSnapshotsQuestionCount ==
  \A user \in Users, questionSetId \in SetIds :
    (SetExists(questionSetId) /\ Len(QuestionsOfSet(questionSetId)) >= 1) =>
      LET outcome == StartAttemptOutcome(user, questionSetId)
          count == Len(QuestionsOfSet(questionSetId))
          n == Len(quizAttemptTable)
      IN /\ outcome.status = 200
         /\ Len(outcome.quizAttemptTable) = n + 1
         /\ SubSeq(outcome.quizAttemptTable, 1, n) = quizAttemptTable
         /\ outcome.quizAttemptTable[n + 1].userId = user
         /\ outcome.quizAttemptTable[n + 1].questionSetId = questionSetId
         /\ outcome.quizAttemptTable[n + 1].score = 0
         /\ outcome.quizAttemptTable[n + 1].completedAt = Null
         /\ outcome.quizAttemptTable[n + 1].totalQuestions = count
         /\ outcome.data.totalQuestions = count
         /\ outcome.quizAnswerTable = quizAnswerTable
         /\ outcome.userProfileTable = userProfileTable

\* C3: for an in-progress attempt of the caller and a question of its set,
\* submitAnswer with the question's correctAnswer answers wasCorrect = true and
\* raises the stored score by exactly 1; with any other string it answers
\* wasCorrect = false and leaves the score; either way it inserts exactly one
\* quiz_answer row, whose isCorrect is the flag returned.
C3_SubmitAnswerScores ==
  \A user \in Users, attemptId \in AttemptIds, questionId \in QuestionIds,
     userAnswer \in UserAnswers :
    LET found == SelectAttempt(attemptId, user)
        questions == SelectQuestion(questionId)
    IN (/\ found # << >>
        /\ found[1].completedAt = Null
        /\ questions # << >>
        /\ questions[1].questionSetId = found[1].questionSetId) =>
         LET outcome == SubmitAnswerOutcome(user, attemptId, questionId, userAnswer)
             n == Len(quizAnswerTable)
             right == userAnswer = questions[1].correctAnswer
         IN /\ outcome.status = 200
            /\ outcome.data.wasCorrect = right
            /\ Len(outcome.quizAnswerTable) = n + 1
            /\ SubSeq(outcome.quizAnswerTable, 1, n) = quizAnswerTable
            /\ outcome.quizAnswerTable[n + 1].quizAttemptId = attemptId
            /\ outcome.quizAnswerTable[n + 1].questionId = questionId
            /\ outcome.quizAnswerTable[n + 1].isCorrect = outcome.data.wasCorrect
            /\ Len(outcome.quizAttemptTable) = Len(quizAttemptTable)
            /\ \A i \in 1..Len(quizAttemptTable) :
                 outcome.quizAttemptTable[i] =
                   IF quizAttemptTable[i].id = attemptId /\ right
                   THEN [quizAttemptTable[i] EXCEPT !.score = quizAttemptTable[i].score + 1]
                   ELSE quizAttemptTable[i]

\* A correct answer was just recorded: its row is flagged correct and its
\* attempt has the point, while the other attempt has none.
C3_Witness ==
  /\ resp.op = "submitAnswer"
  /\ resp.status = 200
  /\ resp.data.wasCorrect
  /\ Len(quizAttemptTable) = 2
  /\ \E i \in 1..Len(quizAnswerTable) :
       /\ quizAnswerTable[i].isCorrect
       /\ quizAttemptTable[quizAnswerTable[i].quizAttemptId].score = 1
       /\ \E k \in 1..Len(quizAttemptTable) : quizAttemptTable[k].score = 0

\* C4: submitAnswer on an attempt whose completedAt is set fails, with 403 for
\* its owner (and with 404 for anyone else), and writes nothing.
C4_CompletedAttemptRefusesAnswers ==
  \A user \in Users, attemptId \in AttemptIds, questionId \in QuestionIds,
     userAnswer \in UserAnswers :
    LET row == AttemptRow(attemptId)
    IN (row # << >> /\ row[1].completedAt # Null) =>
         LET outcome == SubmitAnswerOutcome(user, attemptId, questionId, userAnswer)
         IN /\ outcome.status = IF row[1].userId = user THEN 403 ELSE 404
            /\ WritesNothing(outcome)

\* An answer to a completed attempt was just refused.
C4_Witness ==
  /\ resp.op = "submitAnswer"
  /\ resp.status = 403
  /\ resp.data.error = "Quiz attempt has already been completed"
  /\ \E i \in 1..Len(quizAttemptTable) : quizAttemptTable[i].completedAt # Null

\* The profile rows of a user.
ProfilesOf(table, user) == SelectSeq(table, LAMBDA p : p.userId = user)

\* totalQuizzesTaken of a user: 0 while the user has no profile.
TakenBy(table, user) ==
  IF ProfilesOf(table, user) = << >> THEN 0
  ELSE ProfilesOf(table, user)[1].totalQuizzesTaken

\* C5: completeAttempt by the owner succeeds on an in-progress attempt, sets
\* its completedAt and raises the owner's totalQuizzesTaken by exactly 1; on an
\* attempt already completed it fails with 403 and changes nothing.
C5_CompleteOnce ==
  \A user \in Users, attemptId \in AttemptIds :
    LET found == SelectAttempt(attemptId, user)
        outcome == CompleteAttemptOutcome(user, attemptId)
    IN found # << >> =>
         IF found[1].completedAt = Null
         THEN /\ outcome.status = 200
              /\ AttemptCompleted(outcome.quizAttemptTable[attemptId])
              /\ TakenBy(outcome.userProfileTable, user) = TakenBy(userProfileTable, user) + 1
              /\ \A other \in Users \ {user} :
                   ProfilesOf(outcome.userProfileTable, other) =
                     ProfilesOf(userProfileTable, other)
         ELSE /\ outcome.status = 403
              /\ WritesNothing(outcome)

\* A second completion was just refused, and the owner's profile counts one.
C5_Witness ==
  /\ resp.op = "completeAttempt"
  /\ resp.status = 403
  /\ \E i \in 1..Len(quizAttemptTable) :
       /\ quizAttemptTable[i].completedAt # Null
       /\ TakenBy(userProfileTable, quizAttemptTable[i].userId) = 1

\* The completed attempts of a user.
CompletedBy(user) ==
  SelectSeq(quizAttemptTable, LAMBDA r : r.userId = user /\ r.completedAt # Null)

\* The highest score among a list of attempts; 0 for none.
HighestOf(attempts) ==
  IF attempts = << >> THEN 0
  ELSE CHOOSE m \in {attempts[i].score : i \in 1..Len(attempts)} :
         \A i \in 1..Len(attempts) : attempts[i].score <= m

\* C6: a user who has completed N attempts has a profile with
\* totalQuizzesTaken = N and highestScore the highest of their scores, whether
\* the first completion created the profile or found it; a user with a profile
\* and no completion has 0 and 0.
C6_ProfileAggregates ==
  \A user \in Users :
    LET done == CompletedBy(user)
        profiles == ProfilesOf(userProfileTable, user)
    IN /\ done # << >> => profiles # << >>
       /\ profiles # << >> =>
            /\ profiles[1].totalQuizzesTaken = Len(done)
            /\ profiles[1].highestScore = HighestOf(done)

\* A user completed an attempt with a point and then one without, and the
\* profile the first completion created holds both.
C6_Witness ==
  LET done == CompletedBy("u2")
  IN /\ Len(done) = 2
     /\ done[1].score = 1
     /\ done[2].score = 0
     /\ done[1].completedAt < done[2].completedAt
     /\ ProfilesOf(userProfileTable, "u2") # << >>

\* C7: for every existing set, getQuestionSetDetail answers all the questions
\* of the set, none of them with a correctAnswer field.
C7_SetDetailHidesAnswers ==
  \A questionSetId \in SetIds :
    SetExists(questionSetId) =>
      LET outcome == GetQuestionSetDetailOutcome(questionSetId)
          rows == QuestionsOfSet(questionSetId)
      IN /\ outcome.status = 200
         /\ Len(outcome.data.questions) = Len(rows)
         /\ \A i \in 1..Len(rows) :
              /\ outcome.data.questions[i].id = rows[i].id
              /\ outcome.data.questions[i].content = rows[i].content
              /\ "correctAnswer" \notin DOMAIN outcome.data.questions[i]

\* The two questions of a set were just answered to a caller.
C7_Witness ==
  /\ resp.op = "getQuestionSetDetail"
  /\ resp.status = 200
  /\ Len(resp.data.questions) = 2

\* C8: getAttemptDetail by the owner answers the attempt (id, score,
\* totalQuestions, startedAt, completedAt, the set's name) with exactly the
\* quiz_answer rows of the attempt, each with its question's content, type,
\* options and correctAnswer.
C8_OwnerSeesAttemptAndAnswers ==
  \A user \in Users, attemptId \in AttemptIds :
    LET found == SelectAttempt(attemptId, user)
        outcome == GetAttemptDetailOutcome(user, attemptId)
        rows == SelectSeq(quizAnswerTable, LAMBDA a : a.quizAttemptId = attemptId)
    IN found # << >> =>
         /\ outcome.status = 200
         /\ Len(outcome.data.answers) = Len(rows)
         /\ \A i \in 1..Len(rows) :
              /\ outcome.data.answers[i].questionId = rows[i].questionId
              /\ outcome.data.answers[i].userAnswer = rows[i].userAnswer
              /\ outcome.data.answers[i].correctAnswer =
                   SelectQuestion(rows[i].questionId)[1].correctAnswer
              /\ outcome.data.answers[i].questionContent =
                   SelectQuestion(rows[i].questionId)[1].content
         /\ {"id", "score", "totalQuestions", "startedAt", "completedAt",
             "questionSetName"} \subseteq DOMAIN outcome.data
         /\ outcome.data.id = attemptId
         /\ outcome.data.score = found[1].score
         /\ outcome.data.totalQuestions = found[1].totalQuestions
         /\ outcome.data.startedAt = found[1].startedAt
         /\ outcome.data.completedAt = found[1].completedAt
         /\ outcome.data.questionSetName = QuestionSetName(found[1].questionSetId)

\* C9: submitAnswer by the owner with a question of another set than the
\* attempt's fails with 403 and writes nothing; and every quiz_answer row is of
\* a question of the set of its attempt.
C9_NoCrossSetAnswers ==
  /\ \A user \in Users, attemptId \in AttemptIds, questionId \in QuestionIds,
        userAnswer \in UserAnswers :
       LET found == SelectAttempt(attemptId, user)
           questions == SelectQuestion(questionId)
       IN (/\ found # << >>
           /\ questions # << >>
           /\ questions[1].questionSetId # found[1].questionSetId) =>
            LET outcome == SubmitAnswerOutcome(user, attemptId, questionId, userAnswer)
            IN outcome.status = 403 /\ WritesNothing(outcome)
  /\ \A i \in 1..Len(quizAnswerTable) :
       LET questions == SelectQuestion(quizAnswerTable[i].questionId)
           attempts == AttemptRow(quizAnswerTable[i].quizAttemptId)
       IN /\ questions # << >>
          /\ attempts # << >>
          /\ questions[1].questionSetId = attempts[1].questionSetId

\* A question of another set was just refused on an attempt in progress.
C9_Witness ==
  /\ resp.op = "submitAnswer"
  /\ resp.status = 403
  /\ resp.data.error = "Question does not belong to this quiz set"

\* C10: startAttempt on a set id that does not exist, or on a set with no
\* question, fails with 404 and inserts no quiz_attempt row.
C10_StartNeedsQuestions ==
  \A user \in Users, questionSetId \in SetIds :
    (~SetExists(questionSetId) \/ QuestionsOfSet(questionSetId) = << >>) =>
      LET outcome == StartAttemptOutcome(user, questionSetId)
      IN outcome.status = 404 /\ WritesNothing(outcome)

\* A start on the set without questions was just refused.
C10_Witness ==
  /\ resp.op = "startAttempt"
  /\ resp.status = 404
  /\ resp.data.error = "No questions found for this question set"
\* C11: submitAnswer and completeAttempt on an attemptId that does not exist or
\* that another user owns both fail with 404 and the same error body, and
\* neither changes a quiz_attempt, quiz_answer or profile row.
C11_ForeignAttemptNotFound ==
  \A user \in Users, attemptId \in AttemptIds, questionId \in QuestionIds,
     userAnswer \in UserAnswers :
    LET row == AttemptRow(attemptId)
    IN (row = << >> \/ row[1].userId # user) =>
         LET submit == SubmitAnswerOutcome(user, attemptId, questionId, userAnswer)
             complete == CompleteAttemptOutcome(user, attemptId)
         IN /\ submit.status = 404
            /\ complete.status = 404
            /\ submit.data = complete.data
            /\ WritesNothing(submit)
            /\ WritesNothing(complete)

\* A completion was just refused with 404 while every attempt id a request
\* may carry exists: the attempt is another user's.
C11_Witness ==
  /\ resp.op = "completeAttempt"
  /\ resp.status = 404
  /\ Len(quizAttemptTable) = MaxAttempts
  /\ \E i \in 1..Len(quizAttemptTable) : quizAttemptTable[i].completedAt = Null
GenericError == "An unexpected error occurred while processing your request."

\* C12: when the provider call of postCompletion fails, the request ends with
\* 500 and the generic message, and the chat_session and chat_message tables,
\* like every other table, are as they were before the request.
C12_ProviderFailureWritesNothing ==
  \A user \in Users, form \in Forms, received \in ReceiveTimes :
    (ValidForm(form) /\ received >= now) =>
      LET outcome == PostCompletionOutcome(user, form, received, ApiError)
      IN /\ outcome.status = 500
         /\ outcome.data = ErrorData(GenericError)
         /\ WritesNothing(outcome)

\* A completion request that arrived at 1500 was just answered 500 while no
\* session exists, so no insert can have failed: the provider call did.
C12_Witness ==
  /\ resp.op = "postCompletion"
  /\ resp.status = 500
  /\ resp.data.error = GenericError
  /\ now = 1500
  /\ chatSessionTable = << >>
  /\ chatMessageTable = << >>

\* The chat_message rows of the sessions of a user.
MessagesOf(user) ==
  {i \in 1..Len(chatMessageTable) :
     \E k \in 1..Len(chatSessionTable) :
       /\ chatSessionTable[k].id = chatMessageTable[i].chatSessionId
       /\ chatSessionTable[k].userId = user}

\* C13: getHistory answers 200 with every chat_message of every chat_session
\* of the caller, and no other, as one list by ascending createdAt whatever
\* session a message is of; the list is empty, and the status still 200, for
\* a caller without sessions.
C13_HistoryFlatAndOrdered ==
  \A user \in Users :
    LET outcome == GetHistoryOutcome(user)
        list == outcome.data
        mine == MessagesOf(user)
    IN /\ outcome.status = 200
       /\ WritesNothing(outcome)
       /\ Len(list) = Cardinality(mine)
       /\ \A i \in mine :
            \E k \in 1..Len(list) :
              /\ list[k].id = chatMessageTable[i].chatSessionId
              /\ list[k].role = chatMessageTable[i].role
              /\ list[k].content = chatMessageTable[i].content
              /\ list[k].createdAt = chatMessageTable[i].createdAt
       /\ \A k, l \in 1..Len(list) : k < l => list[k].createdAt <= list[l].createdAt

\* A caller was just answered the four messages of two sessions, the
\* messages of one session between those of the other.
C13_Witness ==
  /\ resp.op = "getHistory"
  /\ resp.status = 200
  /\ Len(resp.data) = 4
  /\ resp.data[1].id # resp.data[2].id
  /\ resp.data[2].id = resp.data[3].id
  /\ resp.data[1].createdAt < resp.data[4].createdAt

\* C16: a postCompletion that succeeds appends one chat_session row whose id
\* is the id the provider returned and whose createdAt is the provider's
\* creation time, then the user's message with createdAt the time the server
\* received the request, then the assistant's message with createdAt the
\* provider's creation time; and it succeeds whenever the provider answered
\* with an id that no session has yet.
C16_CompletionTimestamps ==
  \A user \in Users, form \in Forms, received \in ReceiveTimes, res \in Completions :
    (ValidForm(form) /\ received >= now /\ res.ok) =>
      LET outcome == PostCompletionOutcome(user, form, received, res)
          n == Len(chatSessionTable)
          m == Len(chatMessageTable)
          fresh == \A k \in 1..n : chatSessionTable[k].id # res.id
      IN /\ outcome.status = 200 <=> fresh
         /\ outcome.status = 200 =>
              /\ outcome.chatSessionTable =
                   Append(chatSessionTable,
                          [id |-> res.id, userId |-> user, createdAt |-> res.created * 1000])
              /\ Len(outcome.chatMessageTable) = m + 2
              /\ SubSeq(outcome.chatMessageTable, 1, m) = chatMessageTable
              /\ outcome.chatMessageTable[m + 1].chatSessionId = res.id
              /\ outcome.chatMessageTable[m + 1].role = form.role
              /\ outcome.chatMessageTable[m + 1].content = form.content
              /\ outcome.chatMessageTable[m + 1].createdAt = received
              /\ outcome.chatMessageTable[m + 2].chatSessionId = res.id
              /\ outcome.chatMessageTable[m + 2].role = "assistant"
              /\ outcome.chatMessageTable[m + 2].createdAt = res.created * 1000

\* A completion just succeeded whose user message is stamped 2500, the time
\* of arrival, and whose session and assistant message are stamped 1000, the
\* provider's time.
C16_Witness ==
  /\ resp.op = "postCompletion"
  /\ resp.status = 200
  /\ now = 2500
  /\ LET n == Len(chatSessionTable)
         m == Len(chatMessageTable)
     IN /\ n >= 1 /\ m >= 2
        /\ chatSessionTable[n].createdAt = 1000
        /\ chatMessageTable[m - 1].createdAt = 2500
        /\ chatMessageTable[m].createdAt = 1000
        /\ chatMessageTable[m].chatSessionId = chatSessionTable[n].id
\* What the routes behind loggedIn alone answer a request without a user,
\* whatever else the request carries.
AnonymousOutcomes ==
  {StartAttemptRoute(NoUser, questionSetId) : questionSetId \in SetIds}
  \cup {SubmitAnswerRoute(NoUser, attemptId, questionId, userAnswer) :
          attemptId \in AttemptIds, questionId \in QuestionIds, userAnswer \in UserAnswers}
  \cup {CompleteAttemptRoute(NoUser, attemptId) : attemptId \in AttemptIds}
  \cup {GetQuestionSetDetailRoute(NoUser, questionSetId) : questionSetId \in SetIds}
  \cup {GetAttemptDetailRoute(NoUser, attemptId) : attemptId \in AttemptIds}
  \cup {ListQuestionSetsRoute(NoUser), ListMyAttemptsRoute(NoUser),
        GetHistoryRoute(NoUser), GetUserRoute(NoUser)}

\* What postCompletion answers a request without a user.
AnonymousCompletions ==
  {PostCompletionRoute(NoUser, form, received, res) :
     form \in Forms, received \in {t \in ReceiveTimes : t >= now}, res \in Completions}

\* C15 as claimed: every /quiz and /chat endpoint, GET /auth/user and
\* GET /auth/logout answer a request without a valid session with 401,
\* whatever the rest of the request, and the request writes nothing.
C15_SessionEndpointsAnswer401 ==
  \A outcome \in AnonymousOutcomes \cup AnonymousCompletions \cup {LogoutRoute(NoUser)} :
    outcome.status = 401 /\ WritesNothing(outcome)

\* C15, amended: a request without a valid session writes nothing; it is
\* answered 401 by every /quiz endpoint, GET /chat/history and GET /auth/user
\* whatever else it carries, and by POST /chat/completions when its form is
\* well-formed; POST /chat/completions answers a malformed form 400, its
\* validator running before loggedIn, and GET /auth/logout, which has no
\* loggedIn, answers the redirect 302.
C15_AnonymousRequests ==
  /\ \A outcome \in AnonymousOutcomes : outcome.status = 401 /\ WritesNothing(outcome)
  /\ \A form \in Forms, received \in ReceiveTimes, res \in Completions :
       received >= now =>
         LET outcome == PostCompletionRoute(NoUser, form, received, res)
         IN /\ outcome.status = IF ValidForm(form) THEN 401 ELSE 400
            /\ WritesNothing(outcome)
  /\ LogoutRoute(NoUser).status = 302
  /\ WritesNothing(LogoutRoute(NoUser))

\* A request without a session to complete an attempt was just answered 401
\* while an attempt is in progress and has an answer.
C15_Witness ==
  /\ resp.op = "completeAttempt"
  /\ resp.status = 401
  /\ resp.data = ErrorData("Unauthorized")
  /\ quizAnswerTable # << >>
  /\ \A i \in 1..Len(quizAttemptTable) : quizAttemptTable[i].completedAt = Null
\* C17: under every interleaving of submitAnswer and completeAttempt on one
\* attempt, no quiz_answer row is inserted for an attempt whose completedAt
\* is already set.
C17_NoAnswerAfterCompletion ==
  [][\A i \in 1..Len(quizAnswerTable') :
       i > Len(quizAnswerTable) =>
         \A k \in 1..Len(quizAttemptTable) :
           quizAttemptTable[k].id = quizAnswerTable'[i].quizAttemptId =>
             quizAttemptTable[k].completedAt = Null]_vars

\* highestScore of a user: 0 while the user has no profile.
HighestScoreOf(table, user) ==
  IF ProfilesOf(table, user) = << >> THEN 0
  ELSE ProfilesOf(table, user)[1].highestScore

\* C18: when completeAttempt has answered 200, the score it returned, which
\* is the score it gave the profile update, is the score stored on the
\* attempt it completed, whatever submitAnswer requests ran in between.
C18_CompletionReturnsStoredScore ==
  (resp.op = "completeAttempt" /\ resp.status = 200) =>
    \A k \in 1..Len(quizAttemptTable) :
      quizAttemptTable[k].id = resp.data.attemptId =>
        /\ resp.data.score = quizAttemptTable[k].score
        /\ HighestScoreOf(userProfileTable, quizAttemptTable[k].userId)
             >= quizAttemptTable[k].score

\* The quiz_answer rows of an attempt that are flagged correct.
CorrectRows(answers, attemptId) ==
  {i \in 1..Len(answers) : answers[i].quizAttemptId = attemptId /\ answers[i].isCorrect}

\* No attempt has a score above the number of its correct rows.
ScoresWithinCorrectRows(attempts, answers) ==
  \A k \in 1..Len(attempts) :
    attempts[k].score <= Cardinality(CorrectRows(answers, attempts[k].id))

\* C19: in every reachable state, the score of each quiz_attempt is at most
\* the number of quiz_answer rows of that attempt with isCorrect = true; and
\* the transaction of every submitAnswer in flight, committed or thrown,
\* leaves the tables so.
C19_ScoreWithinCorrectRows ==
  /\ ScoresWithinCorrectRows(quizAttemptTable, quizAnswerTable)
  /\ \A pending \in BagToSet(inflight), failed \in SubmitStatements :
       pending.op = "submitAnswer" =>
         LET outcome == SubmitAnswerCommitOutcome(pending, failed)
         IN ScoresWithinCorrectRows(outcome.quizAttemptTable, outcome.quizAnswerTable)

\* An attempt has one point and one correct row while a submitAnswer that
\* read it with no point waits to record another correct answer.
C19_Witness ==
  /\ resp.op = "submitAnswer"
  /\ resp.status = 200
  /\ \E k \in 1..Len(quizAttemptTable), pending \in BagToSet(inflight) :
       /\ quizAttemptTable[k].score = 1
       /\ Cardinality(CorrectRows(quizAnswerTable, quizAttemptTable[k].id)) = 1
       /\ pending.op = "submitAnswer"
       /\ pending.attemptId = quizAttemptTable[k].id
       /\ pending.quizAttempt.score = 0
       /\ IsCorrect(pending.question, pending.userAnswer)

\* C20: a completeAttempt whose transaction throws at any statement, also
\* after completedAt was written, ends with 500 and leaves the attempt's
\* completedAt and every profile as they were; and in every committed state
\* a user has a completed attempt exactly when the user's profile counts a
\* completion.
C20_CompletionAllOrNothing ==
  /\ \A pending \in BagToSet(inflight) :
       /\ pending.op = "completeAttempt" =>
            \A failed \in CompleteStatements \ {0} :
              LET outcome == CompleteAttemptReadOutcome(pending, failed)
              IN outcome.status = 500 /\ WritesNothing(outcome)
       /\ pending.op = "completeAttemptTx" =>
            \A failed \in ProfileStatements \ {0} :
              LET outcome == CompleteAttemptCommitOutcome(pending, failed)
              IN outcome.status = 500 /\ WritesNothing(outcome)
  /\ \A user \in Users :
       CompletedBy(user) # << >> <=> TakenBy(userProfileTable, user) >= 1

\* A completion was just answered 500: its attempt is still in progress and
\* its owner's profile, if any, counts nothing.
C20_Witness ==
  /\ resp.op = "completeAttempt"
  /\ resp.status = 500
  /\ inflight = EmptyBag
  /\ Len(quizAttemptTable) = 1
  /\ quizAttemptTable[1].completedAt = Null
  /\ TakenBy(userProfileTable, quizAttemptTable[1].userId) = 0

\* C21: the transaction of a submitAnswer in flight either throws, at the
\* insert or at the update of the score, and then the request ends with 500
\* and no table has changed; or it commits the quiz_answer row together with,
\* for a correct answer, the score the handler read plus 1.  So in every
\* committed state an attempt that has a correct row has a score of at least 1.
C21_AnswerAllOrNothing ==
  /\ \A pending \in BagToSet(inflight), failed \in SubmitStatements :
       pending.op = "submitAnswer" =>
         LET outcome == SubmitAnswerCommitOutcome(pending, failed)
             isCorrect == IsCorrect(pending.question, pending.userAnswer)
             n == Len(quizAnswerTable)
         IN IF failed = 1 \/ (failed = 2 /\ isCorrect)
            THEN outcome.status = 500 /\ WritesNothing(outcome)
            ELSE /\ outcome.status = 200
                 /\ Len(outcome.quizAnswerTable) = n + 1
                 /\ SubSeq(outcome.quizAnswerTable, 1, n) = quizAnswerTable
                 /\ outcome.quizAnswerTable[n + 1].isCorrect = isCorrect
                 /\ \A k \in 1..Len(quizAttemptTable) :
                      outcome.quizAttemptTable[k].score =
                        IF isCorrect /\ quizAttemptTable[k].id = pending.attemptId
                        THEN pending.quizAttempt.score + 1
                        ELSE quizAttemptTable[k].score
  /\ \A k \in 1..Len(quizAttemptTable) :
       CorrectRows(quizAnswerTable, quizAttemptTable[k].id) # {} =>
         quizAttemptTable[k].score >= 1

\* An answer was just refused with 500, and the attempt has no row and no
\* point.
C21_Witness ==
  /\ resp.op = "submitAnswer"
  /\ resp.status = 500
  /\ quizAnswerTable = << >>
  /\ Len(quizAttemptTable) = 1
  /\ quizAttemptTable[1].score = 0
  /\ quizAttemptTable[1].completedAt = Null

\* The chat_message rows of a session, by their place in the table.
RowsOfSession(sessionId) ==
  {i \in 1..Len(chatMessageTable) : chatMessageTable[i].chatSessionId = sessionId}

\* C22: in every committed state every chat_session has exactly two
\* chat_message rows, the caller's and after it one with role 'assistant',
\* and every chat_message is of an existing chat_session; a postCompletion
\* one of whose three inserts throws, as the insert of a session whose id
\* exists does, ends with 500 and leaves none of the three rows.
C22_SessionWithBothMessagesOrNone ==
  /\ \A k \in 1..Len(chatSessionTable) :
       LET rows == RowsOfSession(chatSessionTable[k].id)
       IN /\ Cardinality(rows) = 2
          /\ \E i \in rows :
               /\ i + 1 \in rows
               /\ chatMessageTable[i + 1].role = "assistant"
  /\ \A i \in 1..Len(chatMessageTable) :
       \E k \in 1..Len(chatSessionTable) :
         chatSessionTable[k].id = chatMessageTable[i].chatSessionId
  /\ \A k, l \in 1..Len(chatSessionTable) :
       chatSessionTable[k].id = chatSessionTable[l].id => k = l
  /\ \A user \in Users, form \in Forms, received \in ReceiveTimes, res \in Completions :
       (ValidForm(form) /\ received >= now /\ res.ok) =>
         /\ \A failed \in ChatStatements :
              LET outcome == PostCompletionThrownOutcome(user, form, received, res, failed)
              IN /\ outcome.status = 500
                 /\ outcome.data = ErrorData(GenericError)
                 /\ WritesNothing(outcome)
         /\ DuplicateSession(res) =>
              LET outcome == PostCompletionOutcome(user, form, received, res)
              IN /\ outcome.status = 500
                 /\ outcome.data = ErrorData(GenericError)
                 /\ WritesNothing(outcome)

\* A completion was just answered 500 at 2500 while the session of every
\* id the provider may return exists, each with its two messages stamped
\* earlier.
C22_Witness ==
  /\ resp.op = "postCompletion"
  /\ resp.status = 500
  /\ now = 2500
  /\ {chatSessionTable[k].id : k \in 1..Len(chatSessionTable)} = ProviderIds
  /\ Len(chatMessageTable) = 4
  /\ \A i \in 1..Len(chatMessageTable) : chatMessageTable[i].createdAt < 2500

\* What a submitAnswer that is refused answers: status and message.
Refusal(outcome) == <<outcome.status, outcome.data.error>>

\* C23: submitAnswer answers the first check that fails, in the order:
\* attempt found among the caller's (404), attempt in progress (403),
\* question found (404), question of the attempt's set (403), whatever the
\* later checks would have found; a request that is refused writes nothing,
\* and a request that passes the four checks is answered 200.
C23_PreconditionsInOrder ==
  \A user \in Users, attemptId \in AttemptIds, questionId \in QuestionIds,
     userAnswer \in UserAnswers :
    LET row == AttemptRow(attemptId)
        own == row # << >> /\ row[1].userId = user
        inProgress == own /\ row[1].completedAt = Null
        known == \E i \in 1..Len(questionTable) : questionTable[i].id = questionId
        sameSet == \E i \in 1..Len(questionTable) :
                     /\ questionTable[i].id = questionId
                     /\ own
                     /\ questionTable[i].questionSetId = row[1].questionSetId
        outcome == SubmitAnswerOutcome(user, attemptId, questionId, userAnswer)
    IN /\ ~own =>
            Refusal(outcome) = <<404, "Quiz attempt not found or does not belong to user">>
       /\ (own /\ ~inProgress) =>
            Refusal(outcome) = <<403, "Quiz attempt has already been completed">>
       /\ (inProgress /\ ~known) => Refusal(outcome) = <<404, "Question not found">>
       /\ (inProgress /\ known /\ ~sameSet) =>
            Refusal(outcome) = <<403, "Question does not belong to this quiz set">>
       /\ (inProgress /\ known /\ sameSet) <=> outcome.status = 200
       /\ outcome.status # 200 => WritesNothing(outcome)

\* An answer on a completed attempt was just refused as such, and that is
\* the answer to a request on it whose question does not exist and to one
\* whose question is of another set.
C23_Witness ==
  /\ resp.op = "submitAnswer"
  /\ resp.status = 403
  /\ \E i \in 1..Len(quizAttemptTable) :
       LET row == quizAttemptTable[i]
       IN /\ row.completedAt # Null
          /\ SelectQuestion("q0") = << >>
          /\ SubmitAnswerOutcome(row.userId, row.id, "q0", "true").data = resp.data
          /\ \E k \in 1..Len(questionTable) :
               /\ questionTable[k].questionSetId # row.questionSetId
               /\ SubmitAnswerOutcome(row.userId, row.id, questionTable[k].id, "true").data
                    = resp.data

\* The quiz_answer rows of an attempt to a question.
RowsOfQuestion(attemptId, questionId) ==
  {i \in 1..Len(quizAnswerTable) :
     quizAnswerTable[i].quizAttemptId = attemptId /\ quizAnswerTable[i].questionId = questionId}

\* C24: submitAnswer to a question the in-progress attempt already has
\* answers to, however many, is accepted like the first: it answers 200,
\* appends one quiz_answer row and, when the answer is correct, raises the
\* score by 1 once more, whatever totalQuestions is.
C24_RepeatedAnswersAccepted ==
  \A user \in Users, attemptId \in AttemptIds, questionId \in QuestionIds,
     userAnswer \in UserAnswers :
    LET found == SelectAttempt(attemptId, user)
        questions == SelectQuestion(questionId)
    IN (/\ found # << >>
        /\ found[1].completedAt = Null
        /\ RowsOfQuestion(attemptId, questionId) # {}) =>
         LET outcome == SubmitAnswerOutcome(user, attemptId, questionId, userAnswer)
             right == userAnswer = questions[1].correctAnswer
         IN /\ outcome.status = 200
            /\ Len(outcome.quizAnswerTable) = Len(quizAnswerTable) + 1
            /\ outcome.quizAnswerTable[Len(quizAnswerTable) + 1].questionId = questionId
            /\ outcome.quizAnswerTable[Len(quizAnswerTable) + 1].isCorrect = right
            /\ outcome.quizAttemptTable[attemptId].score =
                 found[1].score + (IF right THEN 1 ELSE 0)

\* The score of an in-progress attempt is above its totalQuestions, every
\* row of the table being an answer of that attempt to one question.
C24_Witness ==
  /\ resp.op = "submitAnswer"
  /\ resp.status = 200
  /\ \E k \in 1..Len(quizAttemptTable) :
       /\ quizAttemptTable[k].completedAt = Null
       /\ quizAttemptTable[k].score > quizAttemptTable[k].totalQuestions
       /\ \E questionId \in QuestionIds :
            RowsOfQuestion(quizAttemptTable[k].id, questionId) = 1..Len(quizAnswerTable)

\* C25: in every reachable state a user has at most one profile row, also
\* after the first completions of a user, of different attempts, ran side by
\* side.
C25_OneProfilePerUser ==
  \A user \in Users : Len(ProfilesOf(userProfileTable, user)) <= 1

\* C26: no step, of any request in any interleaving, lowers the
\* highestScore of a user's profile.
C26_HighestScoreNeverDecreases ==
  [][\A user \in Users :
       HighestScoreOf(userProfileTable', user) >= HighestScoreOf(userProfileTable, user)]_vars

\* C27: of the completeAttempt requests on one attempt, however they
\* interleave, one succeeds: the completedAt of an attempt, once set, is not
\* written again, and the profile of a user counts no more completions than
\* the user has completed attempts.
C27_CompletedOnce ==
  [][/\ \A k \in 1..Len(quizAttemptTable) :
          quizAttemptTable[k].completedAt # Null =>
            quizAttemptTable'[k].completedAt = quizAttemptTable[k].completedAt
     /\ \A user \in Users :
          TakenBy(userProfileTable', user) <= Len(CompletedBy(user))']_vars

\* C28: a step never lowers the score of an attempt, and whenever it leaves
\* no submitAnswer in flight, the score of each attempt is the number of its
\* quiz_answer rows with isCorrect = true.
C28_ScoreIsCorrectRows ==
  [][/\ \A k \in 1..Len(quizAttemptTable) :
          quizAttemptTable'[k].score >= quizAttemptTable[k].score
     /\ (\A pending \in BagToSet(inflight') : pending.op # "submitAnswer") =>
          \A k \in 1..Len(quizAttemptTable') :
            quizAttemptTable'[k].score =
              Cardinality(CorrectRows(quizAnswerTable', quizAttemptTable'[k].id))]_vars

\* The chat_session rows of a user, and the chat_message rows of those
\* sessions.
OwnSessions(user) == SelectSeq(chatSessionTable, LAMBDA r : r.userId = user)

OwnMessages(user) ==
  SelectSeq(chatMessageTable,
            LAMBDA m : \E k \in 1..Len(chatSessionTable) :
                         /\ chatSessionTable[k].id = m.chatSessionId
                         /\ chatSessionTable[k].userId = user)

\* C29: after every step that writes a chat table, every entry of the
\* history getHistory answers a user is of a chat_session of that user, and
\* when the step left the sessions of the user and their messages as they
\* were, whatever it did to the rows of others, the history of the user is
\* as it was before the step.
C29_HistoryOfOwnSessionsOnly ==
  [][<<chatSessionTable, chatMessageTable>>' # <<chatSessionTable, chatMessageTable>> =>
       \A user \in Users :
         /\ \A k \in 1..Len(GetHistoryOutcome(user).data)' :
              \E i \in 1..Len(OwnSessions(user))' :
                OwnSessions(user)'[i].id = GetHistoryOutcome(user).data'[k].id
         /\ (/\ OwnSessions(user)' = OwnSessions(user)
             /\ OwnMessages(user)' = OwnMessages(user)) =>
              GetHistoryOutcome(user).data' = GetHistoryOutcome(user).data]_vars

\* A completion of u2 just succeeded while u1 has a session, so that the
\* tables hold the messages of both.
C29_Witness ==
  /\ resp.op = "postCompletion"
  /\ resp.status = 200
  /\ chatSessionTable[Len(chatSessionTable)].userId = "u2"
  /\ OwnMessages("u1") # << >>
  /\ Len(GetHistoryOutcome("u1").data) = 2
  /\ Len(chatMessageTable) = 4

\* C30: in the history of a user, the message the caller sent in a
\* postCompletion comes before the assistant's message of the same session,
\* whatever creation time the provider reported.
C30_UserMessageBeforeAnswer ==
  \A user \in Users :
    LET list == GetHistoryOutcome(user).data
    IN \A k, l \in 1..Len(list) :
         (/\ list[k].id = list[l].id
          /\ list[k].role # "assistant"
          /\ list[l].role = "assistant") => k < l
====
